---- MODULE Spec2Model ----
(***************************************************************************)
(* Authentication surface of the habit-chain tracker: the SessionStore     *)
(* (AuthProvider / useAuth, five revisions of the same hook), the          *)
(* RedirectResolver (getBaseUrl / getOAuthRedirectUrl / getAppBaseUrl),    *)
(* the RouteGuard (ProtectedRoute) and the entry form (Auth).              *)
(*                                                                         *)
(* Strings that the code only compares are TLA+ strings.  Strings that the *)
(* code builds or inspects (URLs, base paths) are sequences of tokens: the *)
(* separators "/" and "#" are tokens of their own and every other token is *)
(* a maximal run of characters that are neither.                           *)
(***************************************************************************)
EXTENDS Integers, Sequences, FiniteSets, TLC

VARIABLES
    rev,            \* which revision of the hook is the one deployed
    window,         \* window.location: hostname and origin of the page
    basePath,       \* import.meta.env.BASE_URL
    hash,           \* window.location.hash
    user,           \* AuthProvider state: user
    session,        \* AuthProvider state: session
    loading,        \* AuthProvider state: loading
    subscribed,     \* AuthProvider is mounted and its subscription is active
    fetch,          \* the getSession() promise: "outstanding" or "settled"
    notifications,  \* auth-state changes emitted by the service, not yet delivered
    delivered,      \* the callbacks delivered so far, oldest first
    inflight,       \* store operations awaiting the external auth service
    form,           \* Auth component state (loading, resetLoading, dialogs)
    last,           \* what the most recently finished handler run did
    location,       \* the router's current location (useLocation)
    rendered        \* what ProtectedRoute returned at its last render

vars == <<rev, window, basePath, hash, user, session, loading, subscribed, fetch,
          notifications, delivered, inflight, form, last, location, rendered>>

envVars == <<rev, window, basePath>>
storeVars == <<user, session, loading>>

----------------------------------------------------------------------------
(* Bounds of the model *)

\* auth-state notifications that may be in flight at once
MaxNotifs == 1
\* callback deliveries (subscription and initial fetch together) in one run
MaxDeliveries == 3
\* store operations that may be awaiting the service at once
MaxInFlight == 2

----------------------------------------------------------------------------
(* Values *)

null == "null"
undefined == "undefined"

Revisions == {"part_000", "part_001", "part_002a", "part_002b", "part_003"}

\* Sessions the external service may hold, and the user of each (session.user).
Sessions == {"s1", "s2"}
Users == {"alice", "bob"}
UserOf(s) == IF s = "s1" THEN "alice" ELSE "bob"

Events == {"INITIAL_SESSION", "SIGNED_IN", "SIGNED_OUT", "TOKEN_REFRESHED"}

\* The (event, session) pairs the service emits.
Notifications ==
    [event : {"INITIAL_SESSION"}, session : Sessions \cup {null}]
    \cup [event : {"SIGNED_IN", "TOKEN_REFRESHED"}, session : Sessions]
    \cup [event : {"SIGNED_OUT"}, session : {null}]

\* Failure reasons of the external service and the message each carries.
AuthErrors == {"e_rejected", "e_duplicate"}
Message(e) ==
    IF e = "e_rejected" THEN "Invalid login credentials" ELSE "User already registered"

Hashes == {"", "#/", "#/auth", "#/habits"}

\* Pages the app may be served from: hostname and origin of window.location.
Windows ==
    { [hostname |-> "localhost", origin |-> <<"http:", "/", "/", "localhost:8080">>],
      [hostname |-> "localhost", origin |-> <<"http:", "/", "/", "localhost:5173">>],
      [hostname |-> "127.0.0.1", origin |-> <<"http:", "/", "/", "127.0.0.1:8080">>],
      [hostname |-> "jefferymaina.github.io",
       origin |-> <<"https:", "/", "/", "jefferymaina.github.io">>],
      [hostname |-> "preview.example.org",
       origin |-> <<"https:", "/", "/", "preview.example.org">>] }

\* Values of import.meta.env.BASE_URL.
BasePaths ==
    { <<>>, <<"/">>, <<"/", "HabitChainTracker_prototype1", "/">> }

Passwords == {"abc12", "abc123", "secret1", "secret2"}
Modes == {"login", "signup"}
Emails == {"user@example.com", "nobody@example.com"}
Locations == {"/dashboard", "/habits"}

----------------------------------------------------------------------------
(* URL strings as token sequences *)

IsSep(t) == t \in {"/", "#"}

Front(u) == SubSeq(u, 1, Len(u) - 1)
Last(u) == u[Len(u)]

\* String concatenation: two runs that meet fuse into one token.
Cat(a, b) ==
    IF a # <<>> /\ b # <<>> /\ ~IsSep(Last(a)) /\ ~IsSep(Head(b))
    THEN Front(a) \o <<Last(a) \o Head(b)>> \o Tail(b)
    ELSE a \o b

endsWith(u, t) == u # <<>> /\ Last(u) = t

HasFragment(u) == \E i \in 1..Len(u) : u[i] = "#"

\* Number of "/" characters the string ends in.
RECURSIVE TrailingSlashes(_)
TrailingSlashes(u) ==
    IF endsWith(u, "/") THEN 1 + TrailingSlashes(Front(u)) ELSE 0

----------------------------------------------------------------------------
(* RedirectResolver *)

\* `typeof window === 'undefined'`: no page, hence no location.
NoWindow == [hostname |-> undefined, origin |-> <<>>]

LocalUrlSlash ==
    <<"http:", "/", "/", "localhost:8080", "/", "HabitChainTracker_prototype1", "/">>
LocalUrl ==
    <<"http:", "/", "/", "localhost:8080", "/", "HabitChainTracker_prototype1">>
ProdUrl ==
    <<"https:", "/", "/", "jefferymaina.github.io", "/", "HabitChainTracker_prototype1">>

\* part_000: origin of the page + the build's base path without its trailing slash.
getBaseUrl_000(w, bp) ==
    IF w = NoWindow THEN <<>>
    ELSE LET base == IF bp = <<>> THEN <<"/">> ELSE bp
             cleanBasePath == IF endsWith(base, "/") THEN Front(base) ELSE base
         IN  Cat(w.origin, cleanBasePath)

\* Mutant of getBaseUrl_001: the base URL is built from the page's origin.
getBaseUrl_001_fromOrigin(w) ==
    IF w = NoWindow THEN <<>>
    ELSE Cat(w.origin, <<"/", "HabitChainTracker_prototype1">>)

\* part_001: explicit URLs, localhost and 127.0.0.1 are local.
getBaseUrl_001(w) ==
    IF w = NoWindow THEN <<>>
    ELSE IF w.hostname = "localhost" \/ w.hostname = "127.0.0.1" THEN LocalUrlSlash
    ELSE ProdUrl

\* part_002, first hook: the same switch under its new name.
getOAuthRedirectUrl(w) ==
    IF w = NoWindow THEN <<>>
    ELSE IF w.hostname = "localhost" \/ w.hostname = "127.0.0.1" THEN LocalUrlSlash
    ELSE ProdUrl

getAppBaseUrl(w) ==
    LET oauth == getOAuthRedirectUrl(w) IN oauth

\* part_002, second hook: only localhost is local, no trailing slash.
getBaseUrl_002b(w) ==
    IF w = NoWindow THEN <<>>
    ELSE IF w.hostname = "localhost" THEN LocalUrl ELSE ProdUrl

\* part_003: as part_002's second hook.
getBaseUrl_003(w) ==
    IF w = NoWindow THEN <<>>
    ELSE IF w.hostname = "localhost" THEN LocalUrl ELSE ProdUrl

----------------------------------------------------------------------------
(* SessionStore operations: the request each one sends to the auth service *)

\* An optional argument: <<v>> when given, <<>> when left out.
Some(v) == <<v>>
None == <<>>

Request(api, email, password, baseUrl, redirectTo, name) ==
    [api |-> api, email |-> email, password |-> password,
     baseUrl |-> baseUrl, redirectTo |-> redirectTo,
     data |-> IF name # "" THEN name ELSE undefined]

signUp_000(w, bp, email, password, name) ==
    LET baseUrl == getBaseUrl_000(w, bp)
    IN  Request("signUp", email, password, Some(baseUrl),
                Some(Cat(baseUrl, <<"/", "#", "/", "auth">>)), name)

signUp_001(w, email, password, name) ==
    LET baseUrl == getBaseUrl_001(w)
    IN  Request("signUp", email, password, Some(baseUrl),
                Some(Cat(baseUrl, <<"#", "/", "auth">>)), name)

signUp_002a(w, email, password, name) ==
    LET baseUrl == getAppBaseUrl(w)
    IN  Request("signUp", email, password, Some(baseUrl),
                Some(Cat(baseUrl, <<"#", "/", "auth">>)), name)

signUp_002b(w, email, password, name) ==
    LET baseUrl == getBaseUrl_002b(w)
    IN  Request("signUp", email, password, Some(baseUrl),
                Some(Cat(baseUrl, <<"/", "#", "/", "auth">>)), name)

signUp_003(w, email, password, name) ==
    LET baseUrl == getBaseUrl_003(w)
    IN  Request("signUp", email, password, Some(baseUrl),
                Some(Cat(baseUrl, <<"/", "#", "/", "auth">>)), name)

signUp(r, w, bp, email, password, name) ==
    CASE r = "part_000" -> signUp_000(w, bp, email, password, name)
      [] r = "part_001" -> signUp_001(w, email, password, name)
      [] r = "part_002a" -> signUp_002a(w, email, password, name)
      [] r = "part_002b" -> signUp_002b(w, email, password, name)
      [] r = "part_003" -> signUp_003(w, email, password, name)

\* The same in every revision.
signIn(email, password) ==
    Request("signInWithPassword", email, password, None, None, "")

signInWithGoogle_000 ==
    Request("signInWithOAuth", "", "", None, None, "")

signInWithGoogle_001(w) ==
    LET baseUrl == getBaseUrl_001(w)
    IN  Request("signInWithOAuth", "", "", Some(baseUrl), Some(baseUrl), "")

signInWithGoogle_002a(w) ==
    LET redirectUrl == getOAuthRedirectUrl(w)
    IN  Request("signInWithOAuth", "", "", Some(redirectUrl), Some(redirectUrl), "")

signInWithGoogle_002b(w) ==
    LET baseUrl == getBaseUrl_002b(w)
    IN  Request("signInWithOAuth", "", "", Some(baseUrl),
                Some(Cat(baseUrl, <<"/", "#", "/">>)), "")

signInWithGoogle_003 ==
    Request("signInWithOAuth", "", "", None, None, "")

signInWithGoogle(r, w) ==
    CASE r = "part_000" -> signInWithGoogle_000
      [] r = "part_001" -> signInWithGoogle_001(w)
      [] r = "part_002a" -> signInWithGoogle_002a(w)
      [] r = "part_002b" -> signInWithGoogle_002b(w)
      [] r = "part_003" -> signInWithGoogle_003

\* The same in every revision.
signOut ==
    Request("signOut", "", "", None, None, "")

resetPassword_000(w, bp, email) ==
    LET baseUrl == getBaseUrl_000(w, bp)
    IN  Request("resetPasswordForEmail", email, "", Some(baseUrl),
                Some(Cat(baseUrl, <<"/", "#", "/", "auth">>)), "")

resetPassword_001(w, email) ==
    LET baseUrl == getBaseUrl_001(w)
    IN  Request("resetPasswordForEmail", email, "", Some(baseUrl),
                Some(Cat(baseUrl, <<"#", "/", "auth">>)), "")

\* Mutant of resetPassword_002a: the reset email links to the bare base URL.
resetPassword_002a_noFragment(w, email) ==
    LET baseUrl == getAppBaseUrl(w)
    IN  Request("resetPasswordForEmail", email, "", Some(baseUrl), Some(baseUrl), "")

resetPassword_002a(w, email) ==
    LET baseUrl == getAppBaseUrl(w)
    IN  Request("resetPasswordForEmail", email, "", Some(baseUrl),
                Some(Cat(baseUrl, <<"#", "/", "auth">>)), "")

resetPassword_002b(w, email) ==
    LET baseUrl == getBaseUrl_002b(w)
    IN  Request("resetPasswordForEmail", email, "", Some(baseUrl),
                Some(Cat(baseUrl, <<"/", "#", "/", "auth">>)), "")

resetPassword_003(w, email) ==
    LET baseUrl == getBaseUrl_003(w)
    IN  Request("resetPasswordForEmail", email, "", Some(baseUrl),
                Some(Cat(baseUrl, <<"/", "#", "/", "auth">>)), "")

resetPassword(r, w, bp, email) ==
    CASE r = "part_000" -> resetPassword_000(w, bp, email)
      [] r = "part_001" -> resetPassword_001(w, email)
      [] r = "part_002a" -> resetPassword_002a(w, email)
      [] r = "part_002b" -> resetPassword_002b(w, email)
      [] r = "part_003" -> resetPassword_003(w, email)

----------------------------------------------------------------------------
(* SessionStore: the two callbacks that write the (user, session, loading) cell *)

\* session?.user ?? null
sessionUser(s) == IF s = null THEN null ELSE UserOf(s)

\* Mutant of onAuthStateChange: a change without a session leaves the user.
onAuthStateChange_keepsUser(event, s) ==
    [session |-> s, user |-> IF s = null THEN user ELSE sessionUser(s),
     loading |-> FALSE]

\* Mutant of onAuthStateChange: a sign-out puts the store back into loading.
onAuthStateChange_reloads(event, s) ==
    [session |-> s, user |-> sessionUser(s), loading |-> (event = "SIGNED_OUT")]

\* What the subscription callback writes: setSession, setUser, setLoading(false).
onAuthStateChange(event, s) ==
    [session |-> s, user |-> sessionUser(s), loading |-> FALSE]

\* Mutant of getSessionThen: the fetch callback keeps a user that is set.
getSessionThen_staleUser(s) ==
    [session |-> s, user |-> IF user # null THEN user ELSE sessionUser(s),
     loading |-> FALSE]

\* Mutant of getSessionThen: the fetch result does not replace a session
\* that a notification has set.
getSessionThen_keepsNewer(s) ==
    [session |-> IF session # null THEN session ELSE s,
     user |-> IF session # null THEN user ELSE sessionUser(s),
     loading |-> FALSE]

\* Mutant of getSessionThen: the fetch callback clears the user.
getSessionThen_dropsUser(s) ==
    [session |-> s, user |-> null, loading |-> FALSE]

\* Mutant of getSessionThen: the fetch callback leaves loading as it is.
getSessionThen_keepsLoading(s) ==
    [session |-> s, user |-> sessionUser(s), loading |-> loading]

\* What the callback of the initial getSession() writes.
getSessionThen(s) ==
    [session |-> s, user |-> sessionUser(s), loading |-> FALSE]

LandingHashes == {"", "#/", "#/auth"}

\* Mutant of onAuthStateChangeHash: every event with a session navigates.
onAuthStateChangeHash_anyEvent(event, s, h) ==
    IF s # null
    THEN IF h \in LandingHashes THEN "#/dashboard" ELSE h
    ELSE h

\* part_003 only: the subscription callback sends a signed-in user to the dashboard.
onAuthStateChangeHash(event, s, h) ==
    IF s # null /\ (event = "SIGNED_IN" \/ event = "INITIAL_SESSION")
    THEN IF h \in LandingHashes THEN "#/dashboard" ELSE h
    ELSE h

\* part_003 only: so does the callback of the initial fetch.
getSessionThenHash(s, h) ==
    IF s # null
    THEN IF h \in LandingHashes THEN "#/dashboard" ELSE h
    ELSE h

----------------------------------------------------------------------------
(* RouteGuard *)

Element(kind, to, replace, from) ==
    [kind |-> kind, to |-> to, replace |-> replace, from |-> from]

\* Mutant of ProtectedRoute: the user is tested before loading.
ProtectedRoute_userFirst(u, l, loc) ==
    IF u = null THEN Element("Navigate", "/auth", TRUE, loc)
    ELSE IF l THEN Element("null", "", FALSE, "")
    ELSE Element("children", "", FALSE, "")

\* Mutant of ProtectedRoute: the redirect carries no location.
ProtectedRoute_noFrom(u, l, loc) ==
    IF l THEN Element("null", "", FALSE, "")
    ELSE IF u = null THEN Element("Navigate", "/auth", TRUE, "")
    ELSE Element("children", "", FALSE, "")

\* null while loading; <Navigate to="/auth" replace state={{from: location}}/>
\* without a user; the children otherwise.
ProtectedRoute(u, l, loc) ==
    IF l THEN Element("null", "", FALSE, "")
    ELSE IF u = null THEN Element("Navigate", "/auth", TRUE, loc)
    ELSE Element("children", "", FALSE, "")

\* What the router shows after the store has changed: protected locations are
\* wrapped in the guard, which renders again; the entry page at /auth (with the
\* location state it was opened with) and the page at / stay.
Render(u, l, loc, shown) ==
    IF loc \in Locations THEN ProtectedRoute(u, l, loc) ELSE shown

----------------------------------------------------------------------------
(* Entry form (Auth): local validation and the outcome shown to the user *)

MinPasswordLength == 6

Toast(title, description) == [title |-> title, description |-> description]
NoToast == Toast("", "")

\* Mutant of validateSubmit: login submissions are validated as well.
validateSubmit_everyMode(mode, password, confirmPassword) ==
    IF password # confirmPassword
    THEN Toast("Passwords do not match", "Please make sure your passwords match.")
    ELSE IF Len(password) < MinPasswordLength
    THEN Toast("Password too short", "Password must be at least 6 characters.")
    ELSE NoToast

\* Mutant of validateSubmit: the length of the password is not checked.
validateSubmit_noLengthCheck(mode, password, confirmPassword) ==
    IF mode = "signup" /\ password # confirmPassword
    THEN Toast("Passwords do not match", "Please make sure your passwords match.")
    ELSE NoToast

\* Mutant of validateSubmit: the length is checked before the confirmation.
validateSubmit_lengthFirst(mode, password, confirmPassword) ==
    IF mode = "signup" /\ Len(password) < MinPasswordLength
    THEN Toast("Password too short", "Password must be at least 6 characters.")
    ELSE IF mode = "signup" /\ password # confirmPassword
    THEN Toast("Passwords do not match", "Please make sure your passwords match.")
    ELSE NoToast

\* Mutant of validateSubmit: a password of exactly the minimum length is refused.
validateSubmit_offByOne(mode, password, confirmPassword) ==
    IF mode = "signup" /\ password # confirmPassword
    THEN Toast("Passwords do not match", "Please make sure your passwords match.")
    ELSE IF mode = "signup" /\ Len(password) <= MinPasswordLength
    THEN Toast("Password too short", "Password must be at least 6 characters.")
    ELSE NoToast

\* The toast of the first failing check of a sign-up submission, NoToast when
\* the submission passes (login submissions are not validated).
validateSubmit(mode, password, confirmPassword) ==
    IF mode = "signup" /\ password # confirmPassword
    THEN Toast("Passwords do not match", "Please make sure your passwords match.")
    ELSE IF mode = "signup" /\ Len(password) < MinPasswordLength
    THEN Toast("Password too short", "Password must be at least 6 characters.")
    ELSE NoToast

\* Mutant of opResult: every failure is handed back as the same error.
opResult_masks(outcome) == IF outcome = null THEN null ELSE "e_rejected"

\* What a store operation hands back: { error: error ?? null }.
opResult(outcome) == IF outcome = null THEN null ELSE outcome

GenericToast == Toast("An error occurred", "Please try again later.")

\* The toast handleSubmit shows once the store operation has settled.
submitToast(mode, outcome) ==
    IF outcome = "throw" THEN GenericToast
    ELSE IF opResult(outcome) # null
    THEN Toast(IF mode = "signup" THEN "Sign up failed" ELSE "Login failed",
               Message(opResult(outcome)))
    ELSE NoToast

\* Mutant of resetToast: a thrown failure is swallowed without a toast.
resetToast_silentThrow(outcome) ==
    IF outcome = "throw" THEN NoToast
    ELSE IF opResult(outcome) # null THEN Toast("Reset failed", Message(opResult(outcome)))
    ELSE NoToast

\* The toast handleForgotPassword shows once resetPassword has settled.
resetToast(outcome) ==
    IF outcome = "throw" THEN GenericToast
    ELSE IF opResult(outcome) # null THEN Toast("Reset failed", Message(opResult(outcome)))
    ELSE NoToast

\* Mutant of submitDisabled: the submit button is also disabled while any
\* sign-in or sign-up call of the form awaits the service.
submitDisabled_whileOutstanding ==
    \/ form.loading
    \/ \E i \in 1..Len(inflight) : inflight[i].caller = "handleSubmit"

\* The submit buttons are disabled while the handler of the page shown is
\* running.
submitDisabled == form.loading
resetDisabled == form.resetLoading

Input(mode, email, password, confirmPassword) ==
    [mode |-> mode, email |-> email, password |-> password,
     confirmPassword |-> confirmPassword]
NoInput == Input("", "", "", "")

\* A call awaiting the service. live: the page instance whose handler made the
\* call is still mounted, so that the setters its continuation calls reach
\* the cells of the page shown.
Frame(caller, req, input) ==
    [caller |-> caller, req |-> req, input |-> input, live |-> TRUE]

\* The cells of a newly mounted entry page (the useState initial values).
InitialForm ==
    [loading |-> FALSE, resetLoading |-> FALSE, showEmailDialog |-> FALSE,
     emailDialogType |-> "signup", showForgotPassword |-> FALSE]

\* The entry page is the page shown.
AuthMounted == rendered.kind = "Auth"

\* The entry page is unmounted: the calls its handlers and buttons await stay
\* in flight, and their continuations keep the setters of the instance that is
\* gone.
Unmount(q) ==
    [i \in 1..Len(q) |->
        IF q[i].caller = "consumer" THEN q[i] ELSE [q[i] EXCEPT !.live = FALSE]]

Run(handler, input, ncalls, toast, error, escaped) ==
    [handler |-> handler, input |-> input, ncalls |-> ncalls, toast |-> toast,
     error |-> error, escaped |-> escaped]
NoRun == Run("", NoInput, 0, NoToast, null, FALSE)

Remove(q, i) == SubSeq(q, 1, i - 1) \o SubSeq(q, i + 1, Len(q))

----------------------------------------------------------------------------
(* Initial state: AuthProvider mounted, its effect has subscribed and has     *)
(* started the initial getSession(); the form is idle; the guard has rendered *)
(* once.                                                                      *)

Init ==
    /\ rev \in Revisions
    /\ window \in Windows
    /\ basePath \in BasePaths
    /\ hash \in Hashes
    /\ user = null
    /\ session = null
    /\ loading = TRUE
    /\ subscribed = TRUE
    /\ fetch = "outstanding"
    /\ notifications = <<>>
    /\ delivered = <<>>
    /\ inflight = <<>>
    /\ form = InitialForm
    /\ last = NoRun
    /\ location \in Locations
    /\ rendered = ProtectedRoute(null, TRUE, location)

----------------------------------------------------------------------------
(* The external auth service and the delivery of its callbacks *)

\* The service reports an auth-state change (initial session, token refresh,
\* expiry, a sign-in completed in the provider's redirect).
EmitNotification(n) ==
    /\ Len(notifications) < MaxNotifs
    /\ notifications' = Append(notifications, n)
    /\ UNCHANGED <<envVars, hash, storeVars, subscribed, fetch, delivered, inflight,
                   form, last, location, rendered>>

\* The subscription callback runs on the oldest undelivered notification.
DeliverAuthStateChange ==
    /\ subscribed
    /\ notifications # <<>>
    /\ Len(delivered) < MaxDeliveries
    /\ LET n == Head(notifications)
           c == onAuthStateChange(n.event, n.session)
       IN  /\ session' = c.session
           /\ user' = c.user
           /\ loading' = c.loading
           /\ hash' = IF rev = "part_003"
                      THEN onAuthStateChangeHash(n.event, n.session, hash)
                      ELSE hash
           /\ delivered' = Append(delivered,
                                  [source |-> "subscription", session |-> n.session])
    /\ notifications' = Tail(notifications)
    /\ rendered' = Render(user', loading', location, rendered)
    /\ UNCHANGED <<envVars, subscribed, fetch, inflight, form, last, location>>

\* Mutant of ResolveGetSession: the setters of the fetch callback still write
\* the cell after the provider has been unmounted.
ResolveGetSession_afterCleanup(s) ==
    /\ fetch = "outstanding"
    /\ Len(delivered) < MaxDeliveries
    /\ LET c == getSessionThen(s)
       IN  /\ session' = c.session
           /\ user' = c.user
           /\ loading' = c.loading
    /\ hash' = IF rev = "part_003" THEN getSessionThenHash(s, hash) ELSE hash
    /\ fetch' = "settled"
    /\ delivered' = Append(delivered, [source |-> "getSession", session |-> s])
    /\ rendered' = IF subscribed THEN Render(user', loading', location, rendered)
                   ELSE rendered
    /\ UNCHANGED <<envVars, subscribed, notifications, inflight, form, last, location>>

\* The initial getSession() settles with session s and its callback runs. The
\* fetch is not cancelled by the cleanup: when the provider has been unmounted
\* the callback still runs, its three setters change nothing, and part_003's
\* write of window.location.hash still happens.
ResolveGetSession(s) ==
    /\ fetch = "outstanding"
    /\ Len(delivered) < MaxDeliveries
    /\ LET c == getSessionThen(s)
       IN  IF subscribed
           THEN /\ session' = c.session
                /\ user' = c.user
                /\ loading' = c.loading
           ELSE UNCHANGED storeVars
    /\ hash' = IF rev = "part_003" THEN getSessionThenHash(s, hash) ELSE hash
    /\ fetch' = "settled"
    /\ delivered' = Append(delivered, [source |-> "getSession", session |-> s])
    /\ rendered' = IF subscribed THEN Render(user', loading', location, rendered)
                   ELSE rendered
    /\ UNCHANGED <<envVars, subscribed, notifications, inflight, form, last, location>>

\* The effect's cleanup. The effect has no dependencies, so the cleanup runs
\* when AuthProvider is unmounted, and with it everything it wraps: nothing is
\* rendered any more, the entry page and its cells are gone, and the cell keeps
\* the values it had. Calls in flight and the initial fetch stay outstanding.
Unsubscribe ==
    /\ subscribed
    /\ subscribed' = FALSE
    /\ rendered' = Element("unmounted", "", FALSE, "")
    /\ form' = InitialForm
    /\ inflight' = Unmount(inflight)
    /\ UNCHANGED <<envVars, hash, storeVars, fetch, notifications, delivered, last,
                   location>>

----------------------------------------------------------------------------
(* Handlers of the entry form, up to their first await *)

handleSubmit(mode, email, password, confirmPassword, name) ==
    /\ AuthMounted
    /\ ~submitDisabled
    /\ LET input == Input(mode, email, password, confirmPassword)
           toast == validateSubmit(mode, password, confirmPassword)
       IN  IF toast # NoToast
           THEN /\ form' = [form EXCEPT !.loading = FALSE]
                /\ last' = Run("handleSubmit", input, 0, toast, null, FALSE)
                /\ UNCHANGED inflight
           ELSE /\ Len(inflight) < MaxInFlight
                /\ form' = [form EXCEPT !.loading = TRUE]
                /\ inflight' = Append(inflight,
                       Frame("handleSubmit",
                             IF mode = "signup"
                             THEN signUp(rev, window, basePath, email, password, name)
                             ELSE signIn(email, password),
                             input))
                /\ UNCHANGED last
    /\ UNCHANGED <<envVars, hash, storeVars, subscribed, fetch, notifications, delivered,
                   location, rendered>>

\* "Forgot password?" opens the reset dialog.
OpenForgotPassword ==
    /\ AuthMounted
    /\ ~form.showForgotPassword
    /\ form' = [form EXCEPT !.showForgotPassword = TRUE]
    /\ UNCHANGED <<envVars, hash, storeVars, subscribed, fetch, notifications, delivered,
                   inflight, last, location, rendered>>

\* The reset dialog is closed (Escape, click outside, its close button):
\* onOpenChange={setShowForgotPassword} with false, also while a reset awaits
\* the service.
CloseForgotPassword ==
    /\ AuthMounted
    /\ form.showForgotPassword
    /\ form' = [form EXCEPT !.showForgotPassword = FALSE]
    /\ UNCHANGED <<envVars, hash, storeVars, subscribed, fetch, notifications, delivered,
                   inflight, last, location, rendered>>

\* The e-mail dialog is closed: "Got it", or onOpenChange={setShowEmailDialog}
\* with false.
CloseEmailDialog ==
    /\ AuthMounted
    /\ form.showEmailDialog
    /\ form' = [form EXCEPT !.showEmailDialog = FALSE]
    /\ UNCHANGED <<envVars, hash, storeVars, subscribed, fetch, notifications, delivered,
                   inflight, last, location, rendered>>

handleForgotPassword(email) ==
    /\ AuthMounted
    /\ form.showForgotPassword
    /\ ~resetDisabled
    /\ LET input == Input("", email, "", "")
       IN  IF email = ""
           THEN /\ last' = Run("handleForgotPassword", input, 0,
                               Toast("Email required", "Please enter your email address."),
                               null, FALSE)
                /\ UNCHANGED <<form, inflight>>
           ELSE /\ Len(inflight) < MaxInFlight
                /\ form' = [form EXCEPT !.resetLoading = TRUE]
                /\ inflight' = Append(inflight,
                       Frame("handleForgotPassword",
                             resetPassword(rev, window, basePath, email), input))
                /\ UNCHANGED last
    /\ UNCHANGED <<envVars, hash, storeVars, subscribed, fetch, notifications, delivered,
                   location, rendered>>

\* "Continue with Google": onClick={() => signInWithGoogle()}.
ClickGoogle ==
    /\ AuthMounted
    /\ Len(inflight) < MaxInFlight
    /\ inflight' = Append(inflight,
                          Frame("googleButton", signInWithGoogle(rev, window), NoInput))
    /\ UNCHANGED <<envVars, hash, storeVars, subscribed, fetch, notifications, delivered,
                   form, last, location, rendered>>

\* A consumer of the context calls a store operation itself and drops the
\* result (signOut has no other caller in the sources).
Invoke(req) ==
    /\ subscribed
    /\ Len(inflight) < MaxInFlight
    /\ inflight' = Append(inflight, Frame("consumer", req, NoInput))
    /\ UNCHANGED <<envVars, hash, storeVars, subscribed, fetch, notifications, delivered,
                   form, last, location, rendered>>

----------------------------------------------------------------------------
(* The service answers a request and the awaiting code runs to its end *)

Outcomes == {null} \cup AuthErrors \cup {"throw"}

\* The auth-state change the service emits when it accepts request req with session s.
emitted(req, outcome, s) ==
    IF outcome # null THEN <<>>
    ELSE IF req.api = "signOut" THEN <<[event |-> "SIGNED_OUT", session |-> null]>>
    ELSE IF req.api \in {"signInWithPassword", "signUp"} /\ s # null
    THEN <<[event |-> "SIGNED_IN", session |-> s]>>
    ELSE <<>>

\* Mutant of formAfter: loading is cleared in the failure paths only.
formAfter_busyOnSuccess(f, outcome) ==
    IF f.caller = "handleSubmit"
    THEN IF f.input.mode = "signup" /\ outcome = null
         THEN [form EXCEPT !.emailDialogType = "signup", !.showEmailDialog = TRUE]
         ELSE [form EXCEPT !.loading = FALSE]
    ELSE IF f.caller = "handleForgotPassword"
    THEN IF outcome = null
         THEN [form EXCEPT !.resetLoading = FALSE, !.showForgotPassword = FALSE,
                           !.emailDialogType = "reset", !.showEmailDialog = TRUE]
         ELSE [form EXCEPT !.resetLoading = FALSE]
    ELSE form

\* The form state after the handler that awaited frame f has finished.
formAfter(f, outcome) ==
    IF f.caller = "handleSubmit"
    THEN IF f.input.mode = "signup" /\ outcome = null
         THEN [form EXCEPT !.loading = FALSE, !.emailDialogType = "signup",
                           !.showEmailDialog = TRUE]
         ELSE [form EXCEPT !.loading = FALSE]
    ELSE IF f.caller = "handleForgotPassword"
    THEN IF outcome = null
         THEN [form EXCEPT !.resetLoading = FALSE, !.showForgotPassword = FALSE,
                           !.emailDialogType = "reset", !.showEmailDialog = TRUE]
         ELSE [form EXCEPT !.resetLoading = FALSE]
    ELSE form

\* What the run that awaited frame f reports.
runAfter(f, outcome) ==
    IF f.caller = "handleSubmit"
    THEN Run("handleSubmit", f.input, 1, submitToast(f.input.mode, outcome),
             IF outcome = "throw" THEN null ELSE opResult(outcome), FALSE)
    ELSE IF f.caller = "handleForgotPassword"
    THEN Run("handleForgotPassword", f.input, 1, resetToast(outcome),
             IF outcome = "throw" THEN null ELSE opResult(outcome), FALSE)
    ELSE IF f.caller = "googleButton"
    THEN Run("googleButton", f.input, 1, NoToast,
             IF outcome = "throw" THEN null ELSE opResult(outcome), outcome = "throw")
    ELSE last

\* Mutant of Respond: an accepted sign-in writes its session into the cell.
Respond_writesCell(i, outcome, s) ==
    /\ i \in 1..Len(inflight)
    /\ LET f == inflight[i]
           e == emitted(f.req, outcome, s)
       IN  /\ (f.req.api = "signInWithPassword" /\ outcome = null) => s # null
           /\ (f.req.api \notin {"signInWithPassword", "signUp"} \/ outcome # null)
                 => s = null
           /\ Len(notifications) + Len(e) <= MaxNotifs
           /\ notifications' = notifications \o e
           /\ form' = IF f.live THEN formAfter(f, outcome) ELSE form
           /\ last' = runAfter(f, outcome)
    /\ inflight' = Remove(inflight, i)
    /\ session' = IF s # null THEN s ELSE session
    /\ user' = IF s # null THEN UserOf(s) ELSE user
    /\ UNCHANGED <<envVars, hash, loading, subscribed, fetch, delivered, location,
                   rendered>>

\* The service answers call i. The continuation of the handler runs to its
\* end: its toast is shown whatever page is open, and its setters change the
\* form only when the instance that made the call is still the one mounted
\* (a state update of an unmounted component has no effect).
Respond(i, outcome, s) ==
    /\ i \in 1..Len(inflight)
    /\ LET f == inflight[i]
           e == emitted(f.req, outcome, s)
       IN  /\ (f.req.api = "signInWithPassword" /\ outcome = null) => s # null
           /\ (f.req.api \notin {"signInWithPassword", "signUp"} \/ outcome # null)
                 => s = null
           /\ Len(notifications) + Len(e) <= MaxNotifs
           /\ notifications' = notifications \o e
           /\ form' = IF f.live THEN formAfter(f, outcome) ELSE form
           /\ last' = runAfter(f, outcome)
    /\ inflight' = Remove(inflight, i)
    /\ UNCHANGED <<envVars, hash, storeVars, subscribed, fetch, delivered, location,
                   rendered>>

----------------------------------------------------------------------------
(* Router *)

\* The user opens another protected location; the guard renders again. When
\* the entry page was the page shown it is unmounted and its cells are gone.
GoTo(loc) ==
    /\ subscribed
    /\ loc # location
    /\ location' = loc
    /\ rendered' = ProtectedRoute(user, loading, loc)
    /\ form' = IF AuthMounted THEN InitialForm ELSE form
    /\ inflight' = IF AuthMounted THEN Unmount(inflight) ELSE inflight
    /\ UNCHANGED <<envVars, hash, storeVars, subscribed, fetch, notifications, delivered,
                   last>>

\* The router performs the guard's <Navigate to="/auth" replace state={{from}}/>:
\* a new instance of the entry page is mounted, its cells at their initial
\* values, with the location state the redirect carries.
Navigate ==
    /\ rendered.kind = "Navigate"
    /\ location' = rendered.to
    /\ rendered' = Element("Auth", "", FALSE, rendered.from)
    /\ form' = InitialForm
    /\ UNCHANGED <<envVars, hash, storeVars, subscribed, fetch, notifications, delivered,
                   inflight, last>>

\* The effect of the entry page: if (user) navigate('/'). The router leaves
\* the entry page, which is unmounted.
AuthUserEffect ==
    /\ AuthMounted
    /\ user # null
    /\ location' = "/"
    /\ rendered' = Element("Index", "", FALSE, "")
    /\ form' = InitialForm
    /\ inflight' = Unmount(inflight)
    /\ UNCHANGED <<envVars, hash, storeVars, subscribed, fetch, notifications, delivered,
                   last>>

----------------------------------------------------------------------------
(* Specifications *)

Next ==
    \/ \E n \in Notifications : EmitNotification(n)
    \/ DeliverAuthStateChange
    \/ \E s \in Sessions \cup {null} : ResolveGetSession(s)
    \/ Unsubscribe
    \/ \E m \in Modes, e \in Emails, p, c \in Passwords :
           handleSubmit(m, e, p, c, "Ada")
    \/ OpenForgotPassword
    \/ CloseForgotPassword
    \/ CloseEmailDialog
    \/ \E e \in Emails \cup {""} : handleForgotPassword(e)
    \/ ClickGoogle
    \/ Invoke(signOut)
    \/ \E i \in 1..MaxInFlight, o \in Outcomes, s \in Sessions \cup {null} :
           Respond(i, o, s)
    \/ \E loc \in Locations : GoTo(loc)
    \/ Navigate
    \/ AuthUserEffect

\* The whole program: every revision on every page, all handlers and callbacks.
\* The properties are checked under the component specifications below, which
\* take the same actions over the inputs their component reads.
Spec == Init /\ [][Next]_vars

\* The session store on its own: every revision, one page, one operation at a time.
InitStore ==
    /\ Init
    /\ window = [hostname |-> "localhost", origin |-> <<"http:", "/", "/", "localhost:8080">>]
    /\ basePath = <<"/">>
    /\ location = "/dashboard"
    /\ rev # "part_003" => hash = ""

\* The requests of the five store operations, one input each.
StoreRequests ==
    { signUp(rev, window, basePath, "user@example.com", "secret1", "Ada"),
      signIn("user@example.com", "secret1"),
      signInWithGoogle(rev, window),
      signOut,
      resetPassword(rev, window, basePath, "user@example.com") }

NextStore ==
    \/ \E n \in Notifications : EmitNotification(n)
    \/ DeliverAuthStateChange
    \/ \E s \in Sessions \cup {null} : ResolveGetSession(s)
    \/ Unsubscribe
    \/ \E req \in StoreRequests : inflight = <<>> /\ Invoke(req)
    \/ \E o \in Outcomes, s \in Sessions \cup {null} : Respond(1, o, s)

SpecStore == InitStore /\ [][NextStore]_vars

\* The route guard over the session store: one revision, one page.
InitGuard ==
    /\ Init
    /\ rev = "part_003"
    /\ window = [hostname |-> "localhost", origin |-> <<"http:", "/", "/", "localhost:8080">>]
    /\ basePath = <<"/">>
    /\ hash = "#/habits"

NextGuard ==
    \/ \E n \in Notifications : EmitNotification(n)
    \/ DeliverAuthStateChange
    \/ \E s \in Sessions \cup {null} : ResolveGetSession(s)
    \/ \E loc \in Locations : GoTo(loc)

SpecGuard == InitGuard /\ [][NextGuard]_vars

\* The redirect resolver: every revision on every page and build.
InitResolver ==
    /\ Init
    /\ hash = ""
    /\ location = "/dashboard"

NextResolver ==
    \/ \E req \in StoreRequests : Invoke(req)
    \/ \E i \in 1..MaxInFlight, o \in {null, "e_rejected"}, s \in {null, "s1"} :
           Respond(i, o, s)

SpecResolver == InitResolver /\ [][NextResolver]_vars

\* The entry form: every input of its handlers, every outcome of the service.
\* The visit starts signed out on a protected location; the guard's redirect
\* opens the entry page.
InitForm ==
    /\ Init
    /\ rev = "part_002a"
    /\ window = [hostname |-> "jefferymaina.github.io",
                 origin |-> <<"https:", "/", "/", "jefferymaina.github.io">>]
    /\ basePath = <<"/", "HabitChainTracker_prototype1", "/">>
    /\ hash = "#/auth"
    /\ location = "/dashboard"

FormPasswords == {"abc12", "abc123", "secret1"}

NextForm ==
    \/ ResolveGetSession(null)
    \/ Navigate
    \/ \E m \in Modes, p, c \in FormPasswords :
           handleSubmit(m, "user@example.com", p, c, "Ada")
    \/ OpenForgotPassword
    \/ CloseForgotPassword
    \/ CloseEmailDialog
    \/ \E e \in Emails \cup {""} : handleForgotPassword(e)
    \/ ClickGoogle
    \/ \E i \in 1..MaxInFlight, o \in Outcomes, s \in {null, "s1"} : Respond(i, o, s)
    \/ DeliverAuthStateChange

SpecForm == InitForm /\ [][NextForm]_vars

\* The two handlers of the form and its dialogs against every answer of the
\* service: every input of the handlers, without the provider button, on one
\* instance of the page.
NextHandlers ==
    \/ ResolveGetSession(null)
    \/ Navigate
    \/ \E m \in Modes, p, c \in FormPasswords :
           handleSubmit(m, "user@example.com", p, c, "Ada")
    \/ OpenForgotPassword
    \/ CloseForgotPassword
    \/ CloseEmailDialog
    \/ \E e \in Emails \cup {""} : handleForgotPassword(e)
    \/ \E i \in 1..MaxInFlight, o \in Outcomes, s \in {null, "s1"} : Respond(i, o, s)
    \/ DeliverAuthStateChange

SpecHandlers == InitForm /\ [][NextHandlers]_vars

\* The entry page over its life: opened by the guard's redirect, left for a
\* protected location or by its own effect, and opened again while calls of an
\* earlier instance still await the service.
PagePasswords == {"abc12", "secret1"}

NextPage ==
    \/ ResolveGetSession(null)
    \/ Navigate
    \/ GoTo("/dashboard")
    \/ AuthUserEffect
    \/ \E m \in Modes, p \in PagePasswords :
           handleSubmit(m, "user@example.com", p, "secret1", "Ada")
    \/ OpenForgotPassword
    \/ CloseForgotPassword
    \/ CloseEmailDialog
    \/ \E e \in {"user@example.com", ""} : handleForgotPassword(e)
    \/ \E i \in 1..MaxInFlight, o \in Outcomes, s \in {null, "s1"} : Respond(i, o, s)
    \/ DeliverAuthStateChange

SpecPage == InitForm /\ [][NextPage]_vars

\* Sign-out over the session store while the provider stays mounted: every
\* revision, one page. The service announces only as many changes as the
\* subscription has room to deliver, and every pending change is delivered in
\* the end (the auth client calls each subscriber on every change it announces).
Room ==
    Len(delivered) + Len(notifications) + (IF fetch = "outstanding" THEN 1 ELSE 0)
        < MaxDeliveries

NextSignOut ==
    \/ \E n \in Notifications : n.session # null /\ Room /\ EmitNotification(n)
    \/ DeliverAuthStateChange
    \/ \E s \in Sessions \cup {null} : ResolveGetSession(s)
    \/ inflight = <<>> /\ Invoke(signOut)
    \/ \E o \in Outcomes : Room /\ Respond(1, o, null)

SpecSignOut ==
    InitStore /\ [][NextSignOut]_vars /\ WF_vars(DeliverAuthStateChange)

\* The two callbacks and the teardown on their own: every revision, every
\* notification, no operation.
NextCallbacks ==
    \/ \E n \in Notifications : EmitNotification(n)
    \/ DeliverAuthStateChange
    \/ \E s \in Sessions \cup {null} : ResolveGetSession(s)
    \/ Unsubscribe

SpecCallbacks == InitStore /\ [][NextCallbacks]_vars

\* The route guard, the entry page and the router over the session store:
\* every revision, both protected locations.
NextEntry ==
    \/ \E n \in Notifications : EmitNotification(n)
    \/ DeliverAuthStateChange
    \/ \E s \in Sessions \cup {null} : ResolveGetSession(s)
    \/ \E loc \in Locations : GoTo(loc)
    \/ Navigate
    \/ AuthUserEffect

SpecEntry == InitStore /\ [][NextEntry]_vars

----------------------------------------------------------------------------
(* Properties *)

Present(opt) == opt # None
TheUrl(opt) == opt[1]

InFlight == {inflight[i] : i \in 1..Len(inflight)}

\* C1: loading is a one-way latch: once it is false, no step of the store
\* (callback delivery, operation, answer of the service) makes it true again.
C1_LoadingLatch == [][~loading => ~loading']_vars

\* C1 witness: loading is false after two deliveries, the second one a
\* sign-out, while an operation awaits the service.
C1_Witness ==
    /\ ~loading
    /\ Len(delivered) >= 2
    /\ delivered[Len(delivered)].session = null
    /\ inflight # <<>>

\* C2: once the initial-fetch callback and the subscription callback have both
\* been delivered with the same session, in either order, the cell holds that
\* session, its user (none when the session is absent) and loading = false.
C2_Converges ==
    LET n == Len(delivered)
    IN  (/\ n >= 2
         /\ delivered[n - 1].source # delivered[n].source
         /\ delivered[n - 1].session = delivered[n].session)
        => /\ session = delivered[n].session
           /\ user = (IF delivered[n].session = null THEN null
                      ELSE UserOf(delivered[n].session))
           /\ loading = FALSE

\* C2 witness: the subscription delivered session s1 first, the fetch the same
\* session after it.
C2_Witness ==
    /\ Len(delivered) = 2
    /\ delivered[1] = [source |-> "subscription", session |-> "s1"]
    /\ delivered[2] = [source |-> "getSession", session |-> "s1"]

\* C3: the guard renders nothing whenever loading is true, whoever the user
\* is; it renders the children exactly when loading is false and a user is
\* present; it never redirects while loading.
C3_GuardWaits ==
    /\ \A u \in Users \cup {null}, loc \in Locations :
           ProtectedRoute(u, TRUE, loc).kind = "null"
    /\ \A u \in Users \cup {null}, l \in BOOLEAN, loc \in Locations :
           ProtectedRoute(u, l, loc).kind = "children" <=> (~l /\ u # null)
    /\ loading => rendered.kind = "null"
    /\ rendered.kind = "children" <=> (~loading /\ user # null)

\* C3 witness: the guard shows the children to a signed-in user.
C3_Witness ==
    /\ rendered.kind = "children"
    /\ user = "alice"
    /\ ~loading

\* C4: with loading false and no user the guard redirects to /auth and the
\* redirect carries the location at which the guard was evaluated.
C4_RedirectCarriesFrom ==
    /\ \A loc \in Locations :
           ProtectedRoute(null, FALSE, loc) = Element("Navigate", "/auth", TRUE, loc)
    /\ (~loading /\ user = null)
           => /\ rendered.kind = "Navigate"
              /\ rendered.to = "/auth"
              /\ rendered.from = location

\* C4 witness: a signed-out visit of /habits is redirected, carrying /habits.
C4_Witness ==
    /\ ~loading
    /\ user = null
    /\ location = "/habits"
    /\ rendered = Element("Navigate", "/auth", TRUE, "/habits")

ValidSignUp(input) ==
    Len(input.password) >= 6 /\ input.password = input.confirmPassword

\* C5: a sign-up submission makes exactly one external sign-up call when the
\* password has at least 6 characters and equals the confirmation, and none
\* otherwise.
C5_SignUpCalls ==
    /\ (last.handler = "handleSubmit" /\ last.input.mode = "signup")
           => last.ncalls = (IF ValidSignUp(last.input) THEN 1 ELSE 0)
    /\ \A f \in InFlight :
           (f.caller = "handleSubmit" /\ f.input.mode = "signup")
               => ValidSignUp(f.input) /\ f.req.api = "signUp"

\* C5 witness: a sign-up with a six-character password and a matching
\* confirmation has made its one call and has finished.
C5_Witness ==
    /\ last.handler = "handleSubmit"
    /\ last.input.mode = "signup"
    /\ last.input.password = "abc123"
    /\ last.input.confirmPassword = "abc123"
    /\ last.ncalls = 1

\* C6: until the first callback is delivered the cell is (loading, no user, no
\* session), whatever operations have been invoked or answered; from the first
\* delivery to the mounted provider on, whichever source it came from, loading
\* is false. A fetch callback that runs only after the provider was unmounted
\* finds no store to write: the cell is still (loading, no user, no session).
C6_LoadingUntilFirstDelivery ==
    /\ delivered = <<>> => (loading /\ user = null /\ session = null)
    /\ (subscribed /\ delivered # <<>>) => ~loading
    /\ (~subscribed /\ loading) => (user = null /\ session = null)

\* C6 witness: the first delivery, from the initial fetch, has cleared loading
\* while an operation awaits the service.
C6_Witness ==
    /\ subscribed
    /\ Len(delivered) = 1
    /\ delivered[1].source = "getSession"
    /\ ~loading
    /\ inflight # <<>>

\* The resolvers that switch on the hostname (all but part_000's).
HostSwitchRevisions == {"part_001", "part_002a", "part_002b", "part_003"}

\* The local URL of a revision: with a trailing slash in part_001 and in
\* part_002's first hook, without in the others.
DesignatedLocalUrl(r) ==
    IF r \in {"part_001", "part_002a"} THEN LocalUrlSlash ELSE LocalUrl

\* C7, as claimed: the resolver returns the local URL for localhost and the
\* production URL for every other hostname.
C7_Original ==
    \A f \in InFlight :
        (rev \in HostSwitchRevisions /\ Present(f.req.baseUrl))
            => TheUrl(f.req.baseUrl) =
                   (IF window.hostname = "localhost" THEN DesignatedLocalUrl(rev)
                    ELSE ProdUrl)

\* C7, amended: the resolver returns the local URL for localhost and the
\* production URL for every hostname other than localhost and 127.0.0.1,
\* whatever the origin of the page, the build's base path and the store state.
C7_HostSwitch ==
    \A f \in InFlight :
        (rev \in HostSwitchRevisions /\ Present(f.req.baseUrl))
            => /\ window.hostname = "localhost"
                      => TheUrl(f.req.baseUrl) = DesignatedLocalUrl(rev)
               /\ window.hostname \notin {"localhost", "127.0.0.1"}
                      => TheUrl(f.req.baseUrl) = ProdUrl
               /\ TheUrl(f.req.baseUrl) \in {DesignatedLocalUrl(rev), ProdUrl}

\* C7 witness: part_001 resolves localhost to the local URL on a page whose
\* origin has another port.
C7_Witness ==
    /\ rev = "part_001"
    /\ window.hostname = "localhost"
    /\ window.origin = <<"http:", "/", "/", "localhost:5173">>
    /\ \E f \in InFlight : f.req.baseUrl = Some(LocalUrlSlash)

\* C8, as claimed: localhost and 127.0.0.1 both resolve to the revision's local
\* URL, which is not the production URL.
C8_Original ==
    \A f \in InFlight :
        (/\ rev \in HostSwitchRevisions
         /\ Present(f.req.baseUrl)
         /\ window.hostname \in {"localhost", "127.0.0.1"})
            => /\ TheUrl(f.req.baseUrl) = DesignatedLocalUrl(rev)
               /\ TheUrl(f.req.baseUrl) # ProdUrl

\* C9, as claimed: the base URL is one of two fixed values, chosen by the class
\* of the hostname alone, whatever the build's base path and the page's origin
\* (a local hostname gets a fixed URL, every other hostname the production URL).
C9_Original ==
    \A f \in InFlight :
        Present(f.req.baseUrl)
            => IF window.hostname \in {"localhost", "127.0.0.1"}
               THEN TheUrl(f.req.baseUrl) \in {LocalUrl, LocalUrlSlash, ProdUrl}
               ELSE TheUrl(f.req.baseUrl) = ProdUrl

\* C10, as claimed: every redirect URL signInWithGoogle passes is the
\* resolver's base URL, without a '#' and with at most one trailing slash.
C10_Original ==
    \A f \in InFlight :
        (f.req.api = "signInWithOAuth" /\ Present(f.req.redirectTo))
            => /\ f.req.redirectTo = f.req.baseUrl
               /\ ~HasFragment(TheUrl(f.req.redirectTo))
               /\ TrailingSlashes(TheUrl(f.req.redirectTo)) <= 1

\* The base URL the revision's resolver gives for the page.
ResolverUrl(r, w, bp) ==
    CASE r = "part_000" -> getBaseUrl_000(w, bp)
      [] r = "part_001" -> getBaseUrl_001(w)
      [] r = "part_002a" -> getAppBaseUrl(w)
      [] r = "part_002b" -> getBaseUrl_002b(w)
      [] r = "part_003" -> getBaseUrl_003(w)

IsPrefix(a, b) == Len(a) <= Len(b) /\ SubSeq(b, 1, Len(a)) = a

EmailApis == {"signUp", "resetPasswordForEmail"}

\* The revisions whose signUp and resetPassword append "#/auth" to the base URL;
\* the others append "/#/auth".
BareFragmentRevisions == {"part_001", "part_002a"}

EmailSuffix(r) ==
    IF r \in BareFragmentRevisions THEN <<"#", "/", "auth">>
    ELSE <<"/", "#", "/", "auth">>

\* C11, as claimed: signUp and resetPassword pass the same redirect URL, and
\* that URL is the resolver's base URL followed by "#/auth".
C11_Original ==
    /\ \A f, g \in InFlight :
           (f.req.api \in EmailApis /\ g.req.api \in EmailApis)
               => f.req.redirectTo = g.req.redirectTo
    /\ \A f \in InFlight :
           f.req.api \in EmailApis
               => f.req.redirectTo =
                      Some(Cat(ResolverUrl(rev, window, basePath), <<"#", "/", "auth">>))

\* C11, amended: signUp and resetPassword pass the same redirect URL on every
\* page; that URL is the resolver's base URL followed by "#/auth" in part_001
\* and in part_002's first hook, and by "/#/auth" in part_000, in part_002's
\* second hook and in part_003; it has the fragment and the OAuth redirect URL
\* of the same page, where one is passed, is its prefix.
C11_EmailRedirect ==
    /\ \A f, g \in InFlight :
           (f.req.api \in EmailApis /\ g.req.api \in EmailApis)
               => f.req.redirectTo = g.req.redirectTo
    /\ \A f \in InFlight :
           f.req.api \in EmailApis
               => /\ f.req.redirectTo =
                         Some(Cat(ResolverUrl(rev, window, basePath), EmailSuffix(rev)))
                  /\ HasFragment(TheUrl(f.req.redirectTo))
                  /\ Last(TheUrl(f.req.redirectTo)) = "auth"
    /\ \A f, g \in InFlight :
           (/\ f.req.api \in EmailApis
            /\ g.req.api = "signInWithOAuth"
            /\ Present(g.req.redirectTo))
               => IsPrefix(TheUrl(g.req.redirectTo), TheUrl(f.req.redirectTo))

\* C11 witness: on a loopback page part_002's first hook has a sign-up and a
\* password reset in flight, both with the local URL followed by "#/auth".
C11_Witness ==
    /\ rev = "part_002a"
    /\ window.hostname = "127.0.0.1"
    /\ Len(inflight) = 2
    /\ inflight[1].req.api = "signUp"
    /\ inflight[2].req.api = "resetPasswordForEmail"
    /\ inflight[1].req.redirectTo = Some(LocalUrlSlash \o <<"#", "/", "auth">>)
    /\ inflight[2].req.redirectTo = inflight[1].req.redirectTo

FormCallers == {"handleSubmit", "handleForgotPassword"}

\* C12: when the service answers a signUp, signIn or resetPassword call of the
\* form with failure reason e, the operation's error is exactly e and the
\* message shown is e's message; when it reports no failure the error is null
\* and no failure is shown.
C12_ErrorVerbatim ==
    [][\A i \in 1..Len(inflight), o \in AuthErrors \cup {null}, s \in {null, "s1"} :
           (/\ inflight[i].caller \in FormCallers
            /\ inflight' = Remove(inflight, i)
            /\ Respond(i, o, s))
               => /\ opResult(o) = o
                  /\ last'.error = o
                  /\ o # null => last'.toast.description = Message(o)
                  /\ o = null => last'.toast = NoToast]_vars

\* C12 witness: a login the service refused as "e_duplicate" has reported that
\* error and its message.
C12_Witness ==
    /\ last.handler = "handleSubmit"
    /\ last.input.mode = "login"
    /\ last.ncalls = 1
    /\ last.error = "e_duplicate"
    /\ last.toast = Toast("Login failed", "User already registered")

\* The loading flag of the handler that ran.
HandlerBusy(handler, f) ==
    IF handler = "handleSubmit" THEN f.loading ELSE f.resetLoading

\* C13: every failure of a submission (refused locally, refused by the
\* service, or thrown) ends that run: the handler shows one toast, has made at
\* most one external call and issues no further one, lets no exception escape
\* and, on the page that ran it, is no longer busy; a thrown failure is shown
\* as the generic "Please try again later." toast, also when the page has been
\* left in the meantime.
C13_FailuresTerminal ==
    [][/\ last'.handler \in FormCallers
              => /\ last'.ncalls <= 1
                 /\ ~last'.escaped
                 /\ last'.ncalls = 0 => last'.toast # NoToast
       /\ \A i \in 1..Len(inflight), o \in AuthErrors \cup {"throw"} :
              (/\ inflight[i].caller \in FormCallers
               /\ inflight' = Remove(inflight, i)
               /\ Respond(i, o, null))
                  => /\ last'.handler = inflight[i].caller
                     /\ last'.ncalls = 1
                     /\ last'.toast # NoToast
                     /\ o = "throw" => last'.toast = GenericToast
                     /\ ~last'.escaped
                     /\ Len(inflight') = Len(inflight) - 1
                     /\ inflight[i].live => ~HandlerBusy(last'.handler, form')]_vars

\* C13 witness: a password reset whose call threw has ended with the generic
\* toast after its one call.
C13_Witness ==
    /\ last.handler = "handleForgotPassword"
    /\ last.ncalls = 1
    /\ last.toast = GenericToast
    /\ ~last.escaped
    /\ ~form.resetLoading

\* C14, as claimed: when the sign-in with the external provider is refused by
\* the service or its call throws, the run of the "Continue with Google" button
\* shows a failure toast and lets no exception escape.
C14_Original ==
    (last.handler = "googleButton" /\ (last.error # null \/ last.escaped))
        => /\ last.toast # NoToast
           /\ ~last.escaped

\* C16: user, session and loading change only in a step that delivers a
\* callback (of the subscription or of the initial fetch); invoking one of the
\* five operations and the service's answer to it, success or failure, leave
\* the three unchanged, and what an operation hands back is an error or null,
\* never a user or a session.
C16_OnlyCallbacksWrite ==
    [][/\ delivered' = delivered => UNCHANGED storeVars
       /\ inflight' # inflight => UNCHANGED storeVars
       /\ \A o \in AuthErrors \cup {null} :
              /\ opResult(o) \in AuthErrors \cup {null}
              /\ opResult(o) \notin Sessions \cup Users]_vars

\* C16 witness: the service has accepted a sign-in for session s2 and announced
\* it, the operation has returned, and the cell still holds session s1.
C16_Witness ==
    /\ session = "s1"
    /\ user = "alice"
    /\ inflight = <<>>
    /\ delivered = <<[source |-> "getSession", session |-> "s1"]>>
    /\ notifications = <<[event |-> "SIGNED_IN", session |-> "s2"]>>

ShortPassword(input) == Len(input.password) < 6

\* The finished run of a sign-up submission.
SignUpRun == last.handler = "handleSubmit" /\ last.input.mode = "signup"

\* C18, as claimed: a sign-up whose password has fewer than 6 characters ends
\* with the "Password too short" toast and no external call, whatever the
\* confirmation field holds.
C18_Original ==
    /\ (SignUpRun /\ ShortPassword(last.input))
           => /\ last.toast.title = "Password too short"
              /\ last.ncalls = 0
    /\ \A f \in InFlight :
           (f.caller = "handleSubmit" /\ f.input.mode = "signup")
               => ~ShortPassword(f.input)

\* C18, amended: a sign-up whose password has fewer than 6 characters is
\* refused locally with no external call, whatever the confirmation field
\* holds; the toast is "Password too short" when the confirmation equals the
\* password and "Passwords do not match" when it differs.
C18_ShortPassword ==
    /\ (SignUpRun /\ ShortPassword(last.input))
           => /\ last.ncalls = 0
              /\ last.toast.title =
                     (IF last.input.confirmPassword = last.input.password
                      THEN "Password too short" ELSE "Passwords do not match")
    /\ \A f \in InFlight :
           (f.caller = "handleSubmit" /\ f.input.mode = "signup")
               => ~ShortPassword(f.input)
    /\ \A p, c \in Passwords :
           Len(p) < 6 => validateSubmit("signup", p, c) # NoToast

\* C18 witness: "abc12", confirmed as "abc12", was refused as too short
\* without a call.
C18_Witness ==
    /\ SignUpRun
    /\ last.input.password = "abc12"
    /\ last.input.confirmPassword = "abc12"
    /\ last.toast = Toast("Password too short", "Password must be at least 6 characters.")
    /\ last.ncalls = 0
    /\ inflight = <<>>

\* C19: a sign-up whose confirmation differs from the password ends with the
\* "Passwords do not match" toast and no external call, whether the password
\* is shorter than 6 characters or not.
C19_Mismatch ==
    /\ (SignUpRun /\ last.input.confirmPassword # last.input.password)
           => /\ last.toast = Toast("Passwords do not match",
                                    "Please make sure your passwords match.")
              /\ last.ncalls = 0
    /\ \A f \in InFlight :
           (f.caller = "handleSubmit" /\ f.input.mode = "signup")
               => f.input.confirmPassword = f.input.password
    /\ \A p, c \in Passwords :
           p # c => validateSubmit("signup", p, c).title = "Passwords do not match"

\* C19 witness: the five-character "abc12", confirmed as "abc123", was refused
\* as a mismatch without a call.
C19_Witness ==
    /\ SignUpRun
    /\ last.input.password = "abc12"
    /\ last.input.confirmPassword = "abc123"
    /\ last.toast.title = "Passwords do not match"
    /\ last.ncalls = 0
    /\ inflight = <<>>

\* The sign-in and sign-up calls of the form that await the service.
SubmitCalls == {i \in 1..Len(inflight) : inflight[i].caller = "handleSubmit"}

\* C20: a second submission is not guarded against while an earlier sign-in
\* or sign-up call is outstanding: whenever the entry page is shown with its
\* own loading flag false, a submission starts, whatever calls of the form
\* still await the service.
C20_NotGuarded ==
    (AuthMounted /\ ~form.loading /\ Len(inflight) < MaxInFlight)
        => ENABLED (\E m \in Modes :
                        handleSubmit(m, "user@example.com", "secret1", "secret1", "Ada"))

\* C20 witness: two sign-in calls of the form are in flight at the same time:
\* the first was submitted on a page that has been left since, the second on
\* the page opened after it.
C20_Witness ==
    /\ Len(inflight) = 2
    /\ SubmitCalls = {1, 2}
    /\ inflight[1].req.api = "signInWithPassword"
    /\ inflight[2].req.api = "signInWithPassword"
    /\ ~inflight[1].live
    /\ inflight[2].live
    /\ AuthMounted
    /\ form.loading

\* The service has confirmed a sign-out and its notification awaits delivery.
SignOutConfirmed ==
    \E i \in 1..Len(notifications) : notifications[i].event = "SIGNED_OUT"

\* C15: once the service has confirmed a signOut, user and session become
\* absent in the end, given that pending notifications are delivered; invoking
\* signOut and the service's answer to it leave user and session as they are,
\* the sign-out notification exists only from the confirmation on, and the
\* cell is cleared only by the delivery of a callback without a session.
C15_SignOutClears ==
    /\ SignOutConfirmed ~> (user = null /\ session = null)
    /\ [][/\ inflight' # inflight => UNCHANGED <<user, session>>
          /\ (~SignOutConfirmed /\ SignOutConfirmed')
                 => /\ inflight # <<>>
                    /\ inflight[1].req.api = "signOut"
                    /\ Respond(1, null, null)
          /\ (session # null /\ session' = null)
                 => /\ Len(delivered') = Len(delivered) + 1
                    /\ delivered'[Len(delivered')].session = null
                    /\ user' = null]_vars

\* C15 witness: signed in as alice by the initial fetch, then signed out: the
\* subscription has delivered the sign-out and the cell is empty.
C15_Witness ==
    /\ delivered = <<[source |-> "getSession", session |-> "s1"],
                     [source |-> "subscription", session |-> null]>>
    /\ user = null
    /\ session = null
    /\ inflight = <<>>

\* C22: user and session agree in every state of the store: the user is absent
\* exactly when the session is, and a present user is the user of the session
\* held.
C22_UserOfSession ==
    /\ user = null <=> session = null
    /\ session # null => (session \in Sessions /\ user = UserOf(session))
    /\ user = sessionUser(session)

\* C22 witness: after the fetch found session s1 the subscription delivered
\* session s2, and the cell holds s2 with its user.
C22_Witness ==
    /\ Len(delivered) = 2
    /\ delivered[1] = [source |-> "getSession", session |-> "s1"]
    /\ delivered[2] = [source |-> "subscription", session |-> "s2"]
    /\ session = "s2"
    /\ user = "bob"

\* C23: after any sequence of deliveries to the mounted provider the cell
\* holds the payload of the callback delivered last, whichever source it came
\* from; a fetch result delivered after a notification replaces the
\* notification's session.
C23_LastDeliveryWins ==
    (subscribed /\ delivered # <<>>)
        => /\ session = delivered[Len(delivered)].session
           /\ user = sessionUser(delivered[Len(delivered)].session)

\* C23 witness: the subscription delivered s2, the initial fetch then delivered
\* s1, and the cell holds s1.
C23_Witness ==
    /\ subscribed
    /\ delivered = <<[source |-> "subscription", session |-> "s2"],
                     [source |-> "getSession", session |-> "s1"]>>
    /\ session = "s1"
    /\ user = "alice"

\* The callback delivered in this step: its source, and for the subscription
\* the event of the notification it ran on.
Delivering == Len(delivered') = Len(delivered) + 1
DeliveredNow == delivered'[Len(delivered')]

\* C26: in part_003 a callback delivered with a session sets the hash to
\* "#/dashboard" when the hash is "", "#/" or "#/auth" (the subscription
\* callback only on SIGNED_IN and INITIAL_SESSION) and leaves every other hash
\* as it is; a callback delivered without a session leaves the hash as it is,
\* and so does every step that delivers nothing.
C26_HashNavigation ==
    [][rev = "part_003"
          => /\ ~Delivering => hash' = hash
             /\ Delivering
                    => LET d == DeliveredNow
                           navigates ==
                               /\ d.session # null
                               /\ d.source = "subscription"
                                      => Head(notifications).event
                                             \in {"SIGNED_IN", "INITIAL_SESSION"}
                       IN  hash' = (IF navigates /\ hash \in {"", "#/", "#/auth"}
                                    THEN "#/dashboard" ELSE hash)]_vars

\* C26 witness: part_003 has been taken from a landing hash to "#/dashboard"
\* by the subscription's delivery of session s1.
C26_Witness ==
    /\ rev = "part_003"
    /\ hash = "#/dashboard"
    /\ delivered = <<[source |-> "subscription", session |-> "s1"]>>
    /\ user = "alice"

\* C27: once the effect's cleanup has unsubscribed, no step changes user,
\* session or loading any more: the subscription stays torn down, pending
\* notifications are not delivered, and the callback of an initial fetch that
\* was still outstanding at the cleanup runs without changing the three.
C27_TeardownFreezes ==
    [][~subscribed
          => /\ UNCHANGED storeVars
             /\ ~subscribed'
             /\ Delivering => (DeliveredNow.source = "getSession"
                                   /\ fetch = "outstanding")]_vars

\* C27 witness: the cleanup ran before anything was delivered; the initial
\* fetch has settled with session s1 after it and a sign-in notification is
\* pending, and the cell is still (loading, no user, no session).
C27_Witness ==
    /\ ~subscribed
    /\ fetch = "settled"
    /\ delivered = <<[source |-> "getSession", session |-> "s1"]>>
    /\ notifications = <<[event |-> "SIGNED_IN", session |-> "s2"]>>
    /\ loading
    /\ user = null
    /\ session = null

\* The calls of the password reset that await the service.
ResetCalls == {i \in 1..Len(inflight) : inflight[i].caller = "handleForgotPassword"}

\* C24: every run of handleSubmit ends with the loading flag of its page
\* false, whether it was refused locally, refused by the service, accepted, or
\* its call threw; every run of handleForgotPassword that set resetLoading ends
\* with resetLoading false; a flag of the page shown is true only while a
\* handler of that page awaits the service, and the end of a run whose page
\* has been left changes no flag of the page shown.
C24_FlagsCleared ==
    [][/\ \A i \in 1..Len(inflight) :
              (inflight[i].caller \in FormCallers /\ inflight' = Remove(inflight, i))
                  => IF inflight[i].live
                     THEN ~HandlerBusy(inflight[i].caller, form')
                     ELSE form' = form
       /\ (last' # last /\ last'.handler \in FormCallers /\ last'.ncalls = 0)
              => ~HandlerBusy(last'.handler, form')
       /\ form'.loading => \E i \in 1..Len(inflight') :
                               /\ inflight'[i].caller = "handleSubmit"
                               /\ inflight'[i].live
       /\ form'.resetLoading => \E i \in 1..Len(inflight') :
                                    /\ inflight'[i].caller = "handleForgotPassword"
                                    /\ inflight'[i].live]_vars

\* C24 witness: an accepted sign-up has ended: the confirmation dialog is
\* shown and loading is false.
C24_Witness ==
    /\ SignUpRun
    /\ last.ncalls = 1
    /\ last.error = null
    /\ last.toast = NoToast
    /\ form.showEmailDialog
    /\ ~form.loading
    /\ SubmitCalls = {}

\* The finished run of a login submission.
LoginRun == last.handler = "handleSubmit" /\ last.input.mode = "login"

\* C25: a login submission is not validated: whatever the length of the
\* password and whatever the confirmation field holds, it makes exactly one
\* signInWithPassword call and no signUp call.
C25_LoginUnvalidated ==
    /\ \A p, c \in Passwords : validateSubmit("login", p, c) = NoToast
    /\ LoginRun => last.ncalls = 1
    /\ \A f \in InFlight :
           /\ (f.caller = "handleSubmit" /\ f.input.mode = "login")
                  => f.req.api = "signInWithPassword"
           /\ f.req.api = "signUp" => f.input.mode = "signup"
           /\ f.req.api = "signInWithPassword" => f.input.mode = "login"

\* C25 witness: a login with the five-character "abc12" and another
\* confirmation has made its one call, which the service accepted.
C25_Witness ==
    /\ LoginRun
    /\ last.input.password = "abc12"
    /\ last.input.confirmPassword = "abc123"
    /\ last.ncalls = 1
    /\ last.toast = NoToast
    /\ last.error = null

\* C21, as claimed: when the entry page, opened by the guard's redirect from
\* location L, sees a user, it takes the router to L.
C21_Original == [][AuthUserEffect => location' = rendered.from]_vars

====
